---- MODULE Spec2Model ----
(***************************************************************************)
(* Alignment arithmetic of align.c: LargestPowerOfTwoFactor, PaddingSize,  *)
(* TailAlignedSize, TailOffset and SortSizesDescending, over a size_t of   *)
(* SizeBits bits.  Each behaviour is one call: Init draws the function and *)
(* its arguments, the function's action computes the result.               *)
(***************************************************************************)
EXTENDS Integers, Sequences, FiniteSets

(* ---------------- bounds of the model ---------------- *)

\* width of size_t in bits
SizeBits == 5
\* sizeof (size_t), in bytes
SizeofSizeT == 2
\* largest key stored in a record handed to SortSizesDescending
MaxKey == 2
\* largest number of records in the caller's array
MaxCount == 3

(* ---------------- size_t arithmetic ---------------- *)

Modulus == 2 ^ SizeBits
SIZE_MAX == Modulus - 1
SizeT == 0 .. SIZE_MAX

\* unsigned addition, subtraction and multiplication wrap modulo 2^SizeBits
Add(a, b) == (a + b) % Modulus
Sub(a, b) == (a - b) % Modulus
Mul(a, b) == (a * b) % Modulus

(* ---------------- LargestPowerOfTwoFactor ---------------- *)

\* mutant: the loop does not test Number >= npow
LoopCond_NoBoundTest(Number, npow) ==
    /\ Number % npow = 0
    /\ SIZE_MAX - npow >= npow

\* mutant: the loop does not test divisibility
LoopCond_NoDivTest(Number, npow) ==
    /\ Number >= npow
    /\ SIZE_MAX - npow >= npow

\* the condition of the while loop
LoopCond(Number, npow) ==
    /\ Number >= npow
    /\ Number % npow = 0
    /\ SIZE_MAX - npow >= npow

RECURSIVE LoopFrom(_, _, _)
\* the while loop, from the state (pow, npow) to the value returned
LoopFrom(Number, pow, npow) ==
    IF LoopCond(Number, npow)
      THEN LoopFrom(Number, npow, Mul(npow, 2))
      ELSE pow

LargestPowerOfTwoFactor(Number) == LoopFrom(Number, 1, 1)

(* ---------------- TailAlignedSize ---------------- *)

\* mutant: the weaker of the two alignments is chosen
Factor_Weakest(hpow, tpow) == IF hpow < tpow THEN hpow ELSE tpow

\* "Choose the strictest alignment"
Factor(hpow, tpow) == IF hpow > tpow THEN hpow ELSE tpow

\* mutant: the padding is the remainder itself
Pad_Remainder(sum, factor) ==
    LET remainder == sum % factor
        padding == remainder
    IN  IF remainder # 0
          THEN IF SIZE_MAX - sum < padding THEN 0 ELSE Add(sum, padding)
          ELSE sum

\* the tentative sum rounded up to the factor, or 0 on overflow
Pad(sum, factor) ==
    LET remainder == sum % factor
        padding == factor - remainder
    IN  IF remainder # 0
          THEN IF SIZE_MAX - sum < padding THEN 0 ELSE Add(sum, padding)
          ELSE sum

\* mutant: the sum is never taken to overflow
SumOverflows_Never(HeadSize, TailSize) == FALSE

\* "Check for overflow" of HeadSize + TailSize
SumOverflows(HeadSize, TailSize) == SIZE_MAX - HeadSize < TailSize

TailAlignedSize(HeadSize, TailSize) ==
    IF HeadSize = 0 \/ TailSize = 0
      THEN 0
      ELSE LET hpow == LargestPowerOfTwoFactor(HeadSize)
               tpow == LargestPowerOfTwoFactor(TailSize)
               factor == Factor(hpow, tpow)
           IN  IF SumOverflows(HeadSize, TailSize)
                 THEN 0
                 ELSE Pad(Add(HeadSize, TailSize), factor)

(* ---------------- PaddingSize, TailOffset ---------------- *)

\* mutant: a failed TailAlignedSize is not detected
PaddingSize_NoSentinel(HeadSize, TailSize) ==
    LET total_size == TailAlignedSize(HeadSize, TailSize)
    IN  Sub(Sub(total_size, TailSize), HeadSize)

PaddingSize(HeadSize, TailSize) ==
    LET total_size == TailAlignedSize(HeadSize, TailSize)
    IN  IF total_size = 0
          THEN SIZE_MAX
          ELSE Sub(Sub(total_size, TailSize), HeadSize)

TailOffset(TotalSize, TailSize) == Sub(TotalSize, TailSize)

(* ---------------- SortSizesDescending ---------------- *)

\* the rest of an element after its size_t: the name of a struct size_desc
Names == {"a", "b"}

\* an element of the array: the size_t at offset 0 and the bytes after it
Element(names) == [sz : 0 .. MaxKey, name : names]

\* the values of Size drawn: too small for a size_t, a bare size_t, a
\* size_t followed by a name
Sizes == {SizeofSizeT - 1, SizeofSizeT, 2 * SizeofSizeT}

\* mutant: the comparison function orders ascending
size_sorter_Ascending(a, b) ==
    LET sa == a.sz
        sb == b.sz
    IN  IF sa < sb THEN -1 ELSE IF sa > sb THEN 1 ELSE 0

\* "Used by SortSizesDescending"
size_sorter(a, b) ==
    LET sa == a.sz
        sb == b.sz
    IN  IF sa < sb THEN 1 ELSE IF sa > sb THEN -1 ELSE 0

\* the rearrangements of nmemb elements
Permutation(nmemb) ==
    {p \in [1 .. nmemb -> 1 .. nmemb] :
        \A i, j \in 1 .. nmemb : i # j => p[i] # p[j]}

\* the C library's qsort with size_sorter: every content the array may have
\* on return.  The first nmemb elements are rearranged so that no element
\* compares greater than a later one; which of two elements that compare
\* equal comes first is unspecified.  An element moves whole.
qsort(base, nmemb) ==
    {[i \in 1 .. Len(base) |-> IF i <= nmemb THEN base[p[i]] ELSE base[i]] :
        p \in {q \in Permutation(nmemb) :
                 \A i, j \in 1 .. nmemb :
                    i < j => size_sorter(base[q[i]], base[q[j]]) <= 0}}

\* mutant: a Count of zero is handed to qsort
NothingToDo_NoCountTest(Array, Count, Size) ==
    Array = "NULL" \/ Size < SizeofSizeT

\* "Nothing to do?"
NothingToDo(Array, Count, Size) ==
    Array = "NULL" \/ Count = 0 \/ Size < SizeofSizeT

(* ---------------- state ---------------- *)

VARIABLES
    pc,         \* "call": the arguments are set; "done": the function returned
    fn,         \* the function called
    number,     \* argument Number
    head,       \* argument HeadSize
    tail,       \* argument TailSize
    total,      \* argument TotalSize
    ret,        \* the value returned
    array,      \* argument Array: "NULL", or "valid" when it points to mem
    count,      \* argument Count
    size,       \* argument Size
    mem,        \* the caller's array of elements
    mem0,       \* the caller's copy of the array, taken before the call
    qsortCalls  \* the number of calls of qsort

vars == <<pc, fn, number, head, tail, total, ret,
          array, count, size, mem, mem0, qsortCalls>>

arithArgs == <<number, head, tail, total>>
sortArgs == <<array, count, size>>

\* the arrays of at most MaxCount elements
Arrays(names) == UNION {[1 .. n -> Element(names)] : n \in 0 .. MaxCount}

NoSortState ==
    /\ array = "NULL" /\ count = 0 /\ size = 0
    /\ mem = <<>> /\ mem0 = <<>>

Init ==
    /\ pc = "call"
    /\ ret = 0
    /\ qsortCalls = 0
    /\ \/ /\ fn = "LargestPowerOfTwoFactor"
          /\ number \in SizeT
          /\ head = 0 /\ tail = 0 /\ total = 0
          /\ NoSortState
       \/ /\ fn \in {"TailAlignedSize", "PaddingSize"}
          /\ head \in SizeT /\ tail \in SizeT
          /\ number = 0 /\ total = 0
          /\ NoSortState
       \/ /\ fn = "TailOffset"
          /\ total \in SizeT /\ tail \in SizeT
          /\ number = 0 /\ head = 0
          /\ NoSortState
       \/ /\ fn = "SortSizesDescending"
          /\ array \in {"NULL", "valid"}
          /\ size \in Sizes
          /\ mem \in Arrays(IF size > SizeofSizeT THEN Names ELSE {""})
          /\ mem0 = mem
          /\ count \in 0 .. Len(mem)
          /\ number = 0 /\ head = 0 /\ tail = 0 /\ total = 0

Return(value) ==
    /\ ret' = value
    /\ pc' = "done"
    /\ UNCHANGED <<fn, arithArgs, sortArgs, mem, mem0, qsortCalls>>

CallLargestPowerOfTwoFactor ==
    /\ pc = "call" /\ fn = "LargestPowerOfTwoFactor"
    /\ Return(LargestPowerOfTwoFactor(number))

CallTailAlignedSize ==
    /\ pc = "call" /\ fn = "TailAlignedSize"
    /\ Return(TailAlignedSize(head, tail))

CallPaddingSize ==
    /\ pc = "call" /\ fn = "PaddingSize"
    /\ Return(PaddingSize(head, tail))

CallTailOffset ==
    /\ pc = "call" /\ fn = "TailOffset"
    /\ Return(TailOffset(total, tail))

CallSortSizesDescending ==
    /\ pc = "call" /\ fn = "SortSizesDescending"
    /\ IF NothingToDo(array, count, size)
         THEN UNCHANGED <<mem, qsortCalls>>
         ELSE /\ mem' \in qsort(mem, count)
              /\ qsortCalls' = qsortCalls + 1
    /\ pc' = "done"
    /\ UNCHANGED <<fn, arithArgs, sortArgs, ret, mem0>>

Next ==
    \/ CallLargestPowerOfTwoFactor
    \/ CallTailAlignedSize
    \/ CallPaddingSize
    \/ CallTailOffset
    \/ CallSortSizesDescending

Spec == Init /\ [][Next]_vars

(* ---------------- properties ---------------- *)

Returned(f) == pc = "done" /\ fn = f

Max(a, b) == IF a >= b THEN a ELSE b

PowersOfTwo == {2 ^ k : k \in 0 .. SizeBits - 1}

\* the alignment factor TailAlignedSize uses for h and t
AlignmentFactor(h, t) ==
    Max(LargestPowerOfTwoFactor(h), LargestPowerOfTwoFactor(t))

\* s rounded up to the next multiple of f, in unbounded integers
RoundedUp(s, f) == ((s + f - 1) \div f) * f

\* C1: a nonzero result of TailAlignedSize(HeadSize, TailSize), both sizes
\* nonzero, is the smallest multiple of max(LargestPowerOfTwoFactor(HeadSize),
\* LargestPowerOfTwoFactor(TailSize)) that is >= HeadSize + TailSize.
C1_LeastMultiple ==
    (Returned("TailAlignedSize") /\ head >= 1 /\ tail >= 1 /\ ret # 0) =>
        LET factor == AlignmentFactor(head, tail)
        IN  /\ ret % factor = 0
            /\ ret >= head + tail
            /\ ret - (head + tail) < factor

C1_Witness ==
    /\ Returned("TailAlignedSize")
    /\ head = 4 /\ tail = 8 /\ ret = 16

\* C2: TailAlignedSize returns 0 exactly when HeadSize is 0, or TailSize is
\* 0, or the unbounded sum exceeds SIZE_MAX, or the unbounded sum rounded up
\* to the alignment factor exceeds SIZE_MAX; any other result is at least 2.
C2_ZeroIffInvalid ==
    Returned("TailAlignedSize") =>
        /\ ret = 0 <=>
              \/ head = 0
              \/ tail = 0
              \/ head + tail > SIZE_MAX
              \/ RoundedUp(head + tail, AlignmentFactor(head, tail)) > SIZE_MAX
        /\ ret # 0 => ret >= 2

C2_Witness ==
    /\ Returned("TailAlignedSize")
    /\ head >= 1 /\ tail >= 1 /\ head + tail <= SIZE_MAX
    /\ ret = 0

\* C3: for a nonzero total T, T is a multiple of
\* LargestPowerOfTwoFactor(HeadSize), and TailOffset(T, TailSize) = T -
\* TailSize is >= HeadSize and a multiple of LargestPowerOfTwoFactor(TailSize).
C3_BothAligned ==
    (Returned("TailAlignedSize") /\ head >= 1 /\ tail >= 1 /\ ret # 0) =>
        /\ ret % LargestPowerOfTwoFactor(head) = 0
        /\ TailOffset(ret, tail) = ret - tail
        /\ TailOffset(ret, tail) >= head
        /\ TailOffset(ret, tail) % LargestPowerOfTwoFactor(tail) = 0

C3_Witness ==
    /\ Returned("TailAlignedSize")
    /\ ret # 0
    /\ LargestPowerOfTwoFactor(head) < LargestPowerOfTwoFactor(tail)
    /\ TailOffset(ret, tail) > head

\* C4: for Number >= 1, LargestPowerOfTwoFactor(Number) is the largest power
\* of two dividing Number: no greater power of two divides Number, and a
\* Number that is a power of two is returned itself.
C4_LargestFactor ==
    (Returned("LargestPowerOfTwoFactor") /\ number >= 1) =>
        /\ number % ret = 0
        /\ \A p \in PowersOfTwo : p > ret => number % p # 0
        /\ number \in PowersOfTwo => ret = number

\* C5: for Number >= 1, LargestPowerOfTwoFactor(Number) returns a power of
\* two p that divides Number, with 1 <= p <= Number.
C5_PowerOfTwoDivisor ==
    (Returned("LargestPowerOfTwoFactor") /\ number >= 1) =>
        /\ ret \in PowersOfTwo
        /\ number % ret = 0
        /\ 1 <= ret /\ ret <= number

C5_Witness ==
    /\ Returned("LargestPowerOfTwoFactor")
    /\ number = 12 /\ ret = 4

\* C6: PaddingSize returns SIZE_MAX exactly when TailAlignedSize returns 0;
\* otherwise it returns TailAlignedSize(HeadSize, TailSize) - HeadSize -
\* TailSize, computed without wrapping, which is never SIZE_MAX.
C6_PaddingOrSentinel ==
    Returned("PaddingSize") =>
        LET T == TailAlignedSize(head, tail)
        IN  /\ ret = SIZE_MAX <=> T = 0
            /\ T # 0 => /\ T - head - tail >= 0
                        /\ ret = T - head - tail
                        /\ ret # SIZE_MAX

C6_Witness ==
    /\ Returned("PaddingSize")
    /\ head = 4 /\ tail = 8 /\ ret = 4

\* the call had a non-null Array, Count >= 1 and Size >= sizeof (size_t)
SortedValidCall ==
    /\ Returned("SortSizesDescending")
    /\ array # "NULL" /\ count >= 1 /\ size >= SizeofSizeT

\* the number of the first Count elements of m equal to e
Occurrences(m, e) == Cardinality({i \in 1 .. count : m[i] = e})

\* the keys of the first Count elements of m do not increase
KeysDescending(m) == \A i \in 1 .. count - 1 : m[i].sz >= m[i + 1].sz

\* C7: after a valid call the first Count elements are a permutation of the
\* original ones, each whole (key and payload together), their keys are in
\* non-increasing order, and nothing else changed.
C7_SortedPermutation ==
    SortedValidCall =>
        /\ Len(mem) = Len(mem0)
        /\ \A i \in 1 .. count :
              Occurrences(mem, mem0[i]) = Occurrences(mem0, mem0[i])
        /\ KeysDescending(mem)
        /\ \A i \in count + 1 .. Len(mem0) : mem[i] = mem0[i]

C7_Witness ==
    /\ SortedValidCall
    /\ count = MaxCount
    /\ mem # mem0
    /\ mem0[1].sz < mem0[2].sz
    /\ mem0[1].name # mem0[2].name

\* C8 as claimed: a valid call on an array whose keys are already in
\* descending order, equal keys allowed, leaves every record at its position.
C8_NoChangeAtAll ==
    (SortedValidCall /\ KeysDescending(mem0)) => mem = mem0

\* C8 amended: a valid call on an array whose keys are already in descending
\* order leaves the key at every position unchanged, and leaves in place
\* every record whose key no other of the Count records has.
C8_KeysUnchanged ==
    (SortedValidCall /\ KeysDescending(mem0)) =>
        /\ Len(mem) = Len(mem0)
        /\ \A i \in 1 .. Len(mem0) : mem[i].sz = mem0[i].sz
        /\ \A i \in 1 .. Len(mem0) :
              (\A j \in 1 .. count : j # i => mem0[j].sz # mem0[i].sz)
                  => mem[i] = mem0[i]

C8_Witness ==
    /\ SortedValidCall /\ KeysDescending(mem0)
    /\ count = MaxCount
    /\ mem0[1].sz > mem0[2].sz
    /\ mem0[2].sz = mem0[3].sz
    /\ mem # mem0

\* C9: with a null Array, a Count of 0 or a Size below sizeof (size_t),
\* qsort is not called and the caller's memory is unchanged; in every other
\* case qsort is called.
C9_NoOpExactly ==
    Returned("SortSizesDescending") =>
        LET invalid == array = "NULL" \/ count = 0 \/ size < SizeofSizeT
        IN  /\ invalid => qsortCalls = 0 /\ mem = mem0
            /\ qsortCalls = 0 => invalid

C9_Witness ==
    /\ Returned("SortSizesDescending")
    /\ array # "NULL" /\ count = 0 /\ size >= SizeofSizeT
    /\ Len(mem) = MaxCount
    /\ mem0[1].sz < mem0[2].sz
    /\ qsortCalls = 0 /\ mem = mem0

\* C10: LargestPowerOfTwoFactor(0) returns 1.
C10_ZeroGivesOne ==
    (Returned("LargestPowerOfTwoFactor") /\ number = 0) => ret = 1

C10_Witness ==
    /\ Returned("LargestPowerOfTwoFactor")
    /\ number = 0 /\ ret = 1

====
